---- MODULE Spec2Model ----
(***************************************************************************)
(* A model of voxblox_ros/src/voxblox_node.cc: the VoxbloxNode with its    *)
(* pointcloud callback (insertPointcloudWithTf), the pose resolution       *)
(* (lookupTransform) and the export of the TSDF map as an intensity        *)
(* pointcloud (publishMarkers).                                            *)
(*                                                                         *)
(* Lengths (coordinates, distances, voxel size) are integers in tenths of  *)
(* a metre: 0.2 is 2, 0.5 is 5.                                            *)
(*                                                                         *)
(* A pointer (std::shared_ptr, an optional record) is a sequence of length *)
(* at most one: <<>> is the null pointer, <<m>> points to m.               *)
(***************************************************************************)
EXTENDS Integers, Sequences, FiniteSets, TLC

VARIABLES
    tsdf_map_,     \* std::shared_ptr<TsdfMap>: <<>> or <<map>>
    published,     \* the pointclouds sent on sdf_pointcloud_pub_, in order
    aborted,       \* TRUE once a CHECK has failed and the process is gone
    integrations,  \* the calls made to the integrator, in order
    lastResolve    \* <<>> or <<r>>: the last callback's pose resolution

vars == <<tsdf_map_, published, aborted, integrations, lastResolve>>

(* Bounds of the model *)

\* the source builds the map with 16 voxels per side (line 34)
VoxelsPerSide == 2
\* number of publishMarkers calls followed
MaxPublish == 2

(* Program constants *)
voxel_size == 2
max_distance == 5

world_frame_ == "world"
SensorFrames == {"sensor", "lidar"}
\* message stamps; 0 is also ros::Time(0), "the latest"
Stamps == {0, 1}

(* The transform provider, tf::TransformListener.  Its answers during one  *)
(* call are an input of the call: `can` is what canTransform says for the  *)
(* requested stamp, `held[t]` is what lookupTransform does at time t.  The *)
(* listener is fed by its own thread, so `can` does not bind `held`.       *)

TfPoses ==
    { [basis |-> "I",    origin |-> <<0, 0, 0>>],
      [basis |-> "Rz90", origin |-> <<10, 0, 0>>] }

TfExceptions == {"ExtrapolationException"}

NoTfPose == [basis |-> "I", origin |-> <<0, 0, 0>>]

TfOutcomes ==
    { [ok |-> TRUE, pose |-> p, what |-> ""] : p \in TfPoses }
    \cup { [ok |-> FALSE, pose |-> NoTfPose, what |-> e] : e \in TfExceptions }

TfListeners(timestamp) ==
    { [can |-> c, held |-> h] :
        c \in BOOLEAN, h \in [ {0, timestamp} -> TfOutcomes ] }

canTransform(tf_listener, target_frame, source_frame, time) ==
    tf_listener.can

\* the StampedTransform on success, the exception otherwise
tfLookupTransform(tf_listener, target_frame, source_frame, time) ==
    LET o == tf_listener.held[time]
    IN  IF o.ok
        THEN [ok |-> TRUE, what |-> "",
              tf |-> [stamp_ |-> time, frame_id_ |-> target_frame,
                      child_frame_id_ |-> source_frame,
                      basis |-> o.pose.basis, origin |-> o.pose.origin]]
        ELSE [ok |-> FALSE, what |-> o.what,
              tf |-> [stamp_ |-> 0, frame_id_ |-> "", child_frame_id_ |-> "",
                      basis |-> NoTfPose.basis, origin |-> NoTfPose.origin]]

\* tf::transformTFToKindr: keeps rotation and translation, drops the header
transformTFToKindr(tf_transform) ==
    [rotation |-> tf_transform.basis, position |-> tf_transform.origin]

\* a default-constructed Transformation
Transformation == [rotation |-> "I", position |-> <<0, 0, 0>>]

TfCall(op, target_frame, source_frame, time) ==
    [op |-> op, target |-> target_frame, source |-> source_frame, time |-> time]


(* VoxbloxNode::lookupTransform, lines 126-153.  `transform` is the value  *)
(* behind the out-pointer on entry.  The result records the return value,  *)
(* the value behind the out-pointer on return, the ROS_WARN and ROS_ERROR  *)
(* events, the requests made to the provider in order, and whether an      *)
(* exception left the function.                                            *)

\* faulty variant: looks up the latest transform whatever canTransform says
lookupTransform_latest(tf_listener, from_frame, to_frame, timestamp, transform) ==
    LET time_to_lookup == 0
        res == tfLookupTransform(tf_listener, to_frame, from_frame, time_to_lookup)
        calls == << TfCall("canTransform", to_frame, from_frame, timestamp),
                    TfCall("lookupTransform", to_frame, from_frame, time_to_lookup) >>
    IN  IF ~res.ok
        THEN [ret |-> FALSE, transform |-> transform, warns |-> 0,
              errors |-> <<res.what>>, calls |-> calls, escaped |-> FALSE]
        ELSE [ret |-> TRUE, transform |-> transformTFToKindr(res.tf), warns |-> 0,
              errors |-> <<>>, calls |-> calls, escaped |-> FALSE]

\* faulty variant: warns but forgets to substitute ros::Time(0)
lookupTransform_nosubst(tf_listener, from_frame, to_frame, timestamp, transform) ==
    LET can == canTransform(tf_listener, to_frame, from_frame, timestamp)
        time_to_lookup == timestamp
        warns == IF ~can THEN 1 ELSE 0
        res == tfLookupTransform(tf_listener, to_frame, from_frame, time_to_lookup)
        calls == << TfCall("canTransform", to_frame, from_frame, timestamp),
                    TfCall("lookupTransform", to_frame, from_frame, time_to_lookup) >>
    IN  IF ~res.ok
        THEN [ret |-> FALSE, transform |-> transform, warns |-> warns,
              errors |-> <<res.what>>, calls |-> calls, escaped |-> FALSE]
        ELSE [ret |-> TRUE, transform |-> transformTFToKindr(res.tf), warns |-> warns,
              errors |-> <<>>, calls |-> calls, escaped |-> FALSE]

\* faulty variant: no try/catch around the lookup
lookupTransform_nocatch(tf_listener, from_frame, to_frame, timestamp, transform) ==
    LET can == canTransform(tf_listener, to_frame, from_frame, timestamp)
        time_to_lookup == IF ~can THEN 0 ELSE timestamp
        warns == IF ~can THEN 1 ELSE 0
        res == tfLookupTransform(tf_listener, to_frame, from_frame, time_to_lookup)
        calls == << TfCall("canTransform", to_frame, from_frame, timestamp),
                    TfCall("lookupTransform", to_frame, from_frame, time_to_lookup) >>
    IN  IF ~res.ok
        THEN [ret |-> FALSE, transform |-> transform, warns |-> warns,
              errors |-> <<>>, calls |-> calls, escaped |-> TRUE]
        ELSE [ret |-> TRUE, transform |-> transformTFToKindr(res.tf), warns |-> warns,
              errors |-> <<>>, calls |-> calls, escaped |-> FALSE]

lookupTransform(tf_listener, from_frame, to_frame, timestamp, transform) ==
    LET \* line 137: the availability request at the exact stamp
        can == canTransform(tf_listener, to_frame, from_frame, timestamp)
        \* lines 132, 138
        time_to_lookup == IF ~can THEN 0 ELSE timestamp
        \* line 139
        warns == IF ~can THEN 1 ELSE 0
        \* lines 143-144: the one lookup of the call
        res == tfLookupTransform(tf_listener, to_frame, from_frame, time_to_lookup)
        calls == << TfCall("canTransform", to_frame, from_frame, timestamp),
                    TfCall("lookupTransform", to_frame, from_frame, time_to_lookup) >>
    IN  IF ~res.ok
        THEN \* lines 145-149: caught, logged, false
             [ret |-> FALSE, transform |-> transform, warns |-> warns,
              errors |-> <<res.what>>, calls |-> calls, escaped |-> FALSE]
        ELSE \* lines 151-152
             [ret |-> TRUE, transform |-> transformTFToKindr(res.tf), warns |-> warns,
              errors |-> <<>>, calls |-> calls, escaped |-> FALSE]

(* TsdfMap and TsdfBlock, voxblox/core/map.h: a sparse grid of blocks of   *)
(* VoxelsPerSide^3 voxels.  block_order is the order in which the map      *)
(* enumerates its allocated blocks.                                        *)

TsdfMapNew(voxels_per_side, size) ==
    [voxels_per_side |-> voxels_per_side, voxel_size |-> size,
     block_order |-> <<>>, blocks |-> [b \in {} |-> <<>>]]

getNumberOfAllocatedBlocks(map) == Cardinality(DOMAIN map.blocks)

getVoxelsPerBlock(map) ==
    map.voxels_per_side * map.voxels_per_side * map.voxels_per_side

getAllAllocatedBlocks(map) == map.block_order

getBlockByIndex(map, index) == map.blocks[index]

getTsdfVoxelByLinearIndex(block, i) == block.voxels[i + 1]

\* the offset, in voxels, of linear index i within its block
linearIndexToOffset(voxels_per_side, i) ==
    << i % voxels_per_side,
       (i \div voxels_per_side) % voxels_per_side,
       i \div (voxels_per_side * voxels_per_side) >>

getCoordinatesOfTsdfVoxelByLinearIndex(block, i) ==
    LET off == linearIndexToOffset(block.voxels_per_side, i)
    IN  [k \in 1..3 |-> block.origin[k] + off[k] * block.voxel_size]

\* the block allocated at block index `index`, every voxel at `distance`
TsdfBlockNew(index, voxels_per_side, size, distance) ==
    [origin |-> [k \in 1..3 |-> index[k] * voxels_per_side * size],
     voxels_per_side |-> voxels_per_side, voxel_size |-> size,
     voxels |-> [i \in 1..(voxels_per_side * voxels_per_side * voxels_per_side)
                   |-> [distance |-> distance, weight |-> 0]]]

(* The maps the export is applied to: any order of allocation over the     *)
(* block indices, every voxel at a fill distance, and at most one voxel    *)
(* written with another distance.  Distances lie on both sides of          *)
(* max_distance.                                                           *)

AllBlockIndex == { <<0, 0, 0>>, <<-1, 0, 1>> }
Distances == { -10, 2 }

BlockOrders ==
    { o \in UNION { [1..n -> AllBlockIndex] : n \in 0..Cardinality(AllBlockIndex) } :
        \A a, b \in 1..Len(o) : a # b => o[a] # o[b] }

Writes(order, fill) ==
    { <<>> } \cup
    { << [index |-> order[k], i |-> i, distance |-> d] >> :
        k \in 1..Len(order),
        i \in 0..(VoxelsPerSide * VoxelsPerSide * VoxelsPerSide - 1),
        d \in Distances \ {fill} }

MakeMap(order, fill, w) ==
    [voxels_per_side |-> VoxelsPerSide, voxel_size |-> voxel_size,
     block_order |-> order,
     blocks |-> [b \in { order[k] : k \in 1..Len(order) } |->
        LET blk == TsdfBlockNew(b, VoxelsPerSide, voxel_size, fill)
        IN  IF w # <<>> /\ w[1].index = b
            THEN [blk EXCEPT !.voxels[w[1].i + 1] =
                                [distance |-> w[1].distance, weight |-> 1]]
            ELSE blk]]

MapFamily ==
    UNION { UNION { { MakeMap(o, fill, w) : w \in Writes(o, fill) } :
                    fill \in Distances } : o \in BlockOrders }

(* VoxbloxNode::publishMarkers, lines 83-123 *)

Abs(x) == IF x < 0 THEN -x ELSE x

\* lines 112-116
PointXYZI(coord, distance) ==
    [x |-> coord[1], y |-> coord[2], z |-> coord[3], intensity |-> distance]

\* faulty variant: the loop drops voxels farther than max_distance
RECURSIVE VoxelLoop_filtered(_, _, _, _)
VoxelLoop_filtered(block, i, num_voxels_per_block, pointcloud) ==
    IF i < num_voxels_per_block
    THEN LET distance == getTsdfVoxelByLinearIndex(block, i).distance
             coord == getCoordinatesOfTsdfVoxelByLinearIndex(block, i)
         IN  VoxelLoop_filtered(block, i + 1, num_voxels_per_block,
                 IF Abs(distance) > max_distance
                 THEN pointcloud
                 ELSE Append(pointcloud, PointXYZI(coord, distance)))
    ELSE pointcloud

\* faulty variant: the loop starts at linear index 1
RECURSIVE VoxelLoop_from(_, _, _, _)
VoxelLoop_from(block, i, num_voxels_per_block, pointcloud) ==
    IF i < num_voxels_per_block
    THEN LET distance == getTsdfVoxelByLinearIndex(block, i).distance
             coord == getCoordinatesOfTsdfVoxelByLinearIndex(block, i)
         IN  VoxelLoop_from(block, i + 1, num_voxels_per_block,
                 Append(pointcloud, PointXYZI(coord, distance)))
    ELSE pointcloud

VoxelLoop_skipfirst(block, i, num_voxels_per_block, pointcloud) ==
    VoxelLoop_from(block, i + 1, num_voxels_per_block, pointcloud)

\* lines 106-118: the voxels of one block from linear index i on
RECURSIVE VoxelLoop(_, _, _, _)
VoxelLoop(block, i, num_voxels_per_block, pointcloud) ==
    IF i < num_voxels_per_block
    THEN LET distance == getTsdfVoxelByLinearIndex(block, i).distance
             coord == getCoordinatesOfTsdfVoxelByLinearIndex(block, i)
         IN  VoxelLoop(block, i + 1, num_voxels_per_block,
                 Append(pointcloud, PointXYZI(coord, distance)))
    ELSE pointcloud

\* lines 103-119: the blocks of the list from position k on
RECURSIVE BlockLoop(_, _, _, _, _)
BlockLoop(map, blocks, k, num_voxels_per_block, pointcloud) ==
    IF k <= Len(blocks)
    THEN LET block == getBlockByIndex(map, blocks[k])
         IN  BlockLoop(map, blocks, k + 1, num_voxels_per_block,
                 VoxelLoop(block, 0, num_voxels_per_block, pointcloud))
    ELSE pointcloud

\* lines 86-121 on an allocated map: the pointcloud handed to the publisher
ExportPointcloud(map) ==
    LET num_voxels_per_block == getVoxelsPerBlock(map)
        blocks == getAllAllocatedBlocks(map)
    IN  [frame_id |-> world_frame_,
         points |-> BlockLoop(map, blocks, 1, num_voxels_per_block, <<>>)]

\* faulty variant: no CHECK, a null map publishes an empty pointcloud
PublishMarkers_nocheck ==
    /\ ~aborted
    /\ Len(published) < MaxPublish
    /\ published' = Append(published,
            IF tsdf_map_ = <<>>
            THEN [frame_id |-> world_frame_, points |-> <<>>]
            ELSE ExportPointcloud(tsdf_map_[1]))
    /\ UNCHANGED <<tsdf_map_, aborted, integrations, lastResolve>>

\* faulty variant: the pointcloud outlives the call and keeps growing
PublishMarkers_static ==
    /\ ~aborted
    /\ Len(published) < MaxPublish
    /\ IF tsdf_map_ = <<>>
       THEN /\ aborted' = TRUE
            /\ UNCHANGED published
       ELSE /\ published' = Append(published,
                   LET pc == ExportPointcloud(tsdf_map_[1])
                   IN  IF published = <<>> THEN pc
                       ELSE [pc EXCEPT !.points =
                                published[Len(published)].points \o pc.points])
            /\ UNCHANGED aborted
    /\ UNCHANGED <<tsdf_map_, integrations, lastResolve>>

PublishMarkers ==
    /\ ~aborted
    /\ Len(published) < MaxPublish
    /\ IF tsdf_map_ = <<>>
       THEN \* line 84: CHECK fails, the process aborts
            /\ aborted' = TRUE
            /\ UNCHANGED published
       ELSE \* line 122
            /\ published' = Append(published, ExportPointcloud(tsdf_map_[1]))
            /\ UNCHANGED aborted
    /\ UNCHANGED <<tsdf_map_, integrations, lastResolve>>

(* VoxbloxNode::insertPointcloudWithTf, lines 68-81.  The observation is   *)
(* its header: the sensor frame and the stamp.                             *)

\* faulty variant: the integrator is called whatever lookupTransform returns
InsertPointcloudWithTf_unchecked ==
    /\ ~aborted
    /\ \E frame_id \in SensorFrames, stamp \in Stamps :
         \E tf_listener_ \in TfListeners(stamp) :
           LET sensor_to_world == Transformation
               r == lookupTransform(tf_listener_, frame_id, world_frame_,
                                    stamp, sensor_to_world)
           IN  /\ lastResolve' = << [from_frame |-> frame_id,
                                     to_frame |-> world_frame_,
                                     timestamp |-> stamp,
                                     tf_listener |-> tf_listener_,
                                     result |-> r] >>
               /\ integrations' =
                    IF Len(integrations) < 1
                    THEN Append(integrations,
                            [sensor_to_world |-> r.transform,
                             frame_id |-> frame_id, stamp |-> stamp,
                             resolved |-> r.ret])
                    ELSE integrations
    /\ UNCHANGED <<tsdf_map_, published, aborted>>

InsertPointcloudWithTf ==
    /\ ~aborted
    /\ \E frame_id \in SensorFrames, stamp \in Stamps :
         \E tf_listener_ \in TfListeners(stamp) :
           LET sensor_to_world == Transformation
               \* lines 72-73
               r == lookupTransform(tf_listener_, frame_id, world_frame_,
                                    stamp, sensor_to_world)
           IN  /\ lastResolve' = << [from_frame |-> frame_id,
                                     to_frame |-> world_frame_,
                                     timestamp |-> stamp,
                                     tf_listener |-> tf_listener_,
                                     result |-> r] >>
               \* lines 74-76: the integrator call is commented out, the
               \* branch taken on success is empty
               /\ integrations' = IF r.ret THEN integrations ELSE integrations
    /\ UNCHANGED <<tsdf_map_, published, aborted>>

(* The node after its constructor, lines 20-35 *)

\* faulty variant: the constructor forgets tsdf_map_.reset(...)
Init_noreset ==
    /\ tsdf_map_ = <<>>
    /\ published = <<>>
    /\ aborted = FALSE
    /\ integrations = <<>>
    /\ lastResolve = <<>>

Init ==
    /\ tsdf_map_ = << TsdfMapNew(VoxelsPerSide, voxel_size) >>
    /\ published = <<>>
    /\ aborted = FALSE
    /\ integrations = <<>>
    /\ lastResolve = <<>>

\* publishMarkers as a function of the map handle: any handle, null included
InitExport ==
    /\ tsdf_map_ \in { <<>> } \cup { <<m>> : m \in MapFamily }
    /\ published = <<>>
    /\ aborted = FALSE
    /\ integrations = <<>>
    /\ lastResolve = <<>>

Next ==
    \/ InsertPointcloudWithTf
    \/ PublishMarkers

Spec == Init /\ [][Next]_vars

SpecExport == InitExport /\ [][Next]_vars

(* Properties of the pose resolution.  With c the record of the last       *)
(* callback: c.tf_listener is what the provider answers during the call,   *)
(* c.result what lookupTransform did.                                      *)

HeldAt(c, t) == c.tf_listener.held[t]

SamePose(transform, pose) ==
    /\ transform.rotation = pose.basis
    /\ transform.position = pose.origin

LookupsAt(c, t) ==
    { k \in 1..Len(c.result.calls) :
        /\ c.result.calls[k].op = "lookupTransform"
        /\ c.result.calls[k].time = t }

\* C1: when the provider says the transform can be resolved at the exact
\* stamp T and the lookup at T succeeds, the call returns true with the
\* transform held for T and warns zero times.
C1_ExactTransformNoWarning ==
    lastResolve # <<>> =>
        LET c == lastResolve[1]
        IN  (c.tf_listener.can /\ HeldAt(c, c.timestamp).ok) =>
                /\ c.result.ret
                /\ SamePose(c.result.transform, HeldAt(c, c.timestamp).pose)
                /\ c.result.warns = 0

\* the exact stamp is resolved while the latest transform is another one
C1_Witness ==
    /\ lastResolve # <<>>
    /\ LET c == lastResolve[1]
       IN  /\ c.timestamp # 0
           /\ c.tf_listener.can
           /\ HeldAt(c, c.timestamp).ok
           /\ HeldAt(c, 0).ok
           /\ HeldAt(c, 0).pose # HeldAt(c, c.timestamp).pose
           /\ c.result.ret
           /\ c.result.warns = 0

\* C2: when the provider cannot resolve at T but the lookup at the latest
\* sentinel (time 0) succeeds, the call returns true with the latest
\* transform and warns exactly once.
C2_FallbackToLatestWarnsOnce ==
    lastResolve # <<>> =>
        LET c == lastResolve[1]
        IN  (~c.tf_listener.can /\ HeldAt(c, 0).ok) =>
                /\ c.result.ret
                /\ SamePose(c.result.transform, HeldAt(c, 0).pose)
                /\ c.result.warns = 1

\* the fallback is taken while the provider holds another transform for T
C2_Witness ==
    /\ lastResolve # <<>>
    /\ LET c == lastResolve[1]
       IN  /\ c.timestamp # 0
           /\ ~c.tf_listener.can
           /\ HeldAt(c, 0).ok
           /\ HeldAt(c, c.timestamp).ok
           /\ HeldAt(c, 0).pose # HeldAt(c, c.timestamp).pose
           /\ c.result.ret
           /\ c.result.warns = 1

\* C3: when the provider can resolve neither at T nor at the latest
\* sentinel, the call returns false and no exception leaves it; and every
\* call asks the provider at most twice, one canTransform at T and one
\* lookupTransform.
C3_FailureReturnedAtMostTwoRequests ==
    lastResolve # <<>> =>
        LET c == lastResolve[1]
            calls == c.result.calls
        IN  /\ (~c.tf_listener.can /\ ~HeldAt(c, 0).ok) =>
                    /\ ~c.result.ret
                    /\ ~c.result.escaped
                    /\ c.result.errors = << HeldAt(c, 0).what >>
            /\ ~c.result.escaped
            /\ Len(calls) <= 2
            /\ Cardinality({ k \in 1..Len(calls) : calls[k].op = "canTransform" }) <= 1
            /\ Cardinality({ k \in 1..Len(calls) : calls[k].op = "lookupTransform" }) <= 1
            /\ \A k \in 1..Len(calls) :
                   calls[k].op = "canTransform" => calls[k].time = c.timestamp

\* neither the exact stamp nor the latest can be resolved
C3_Witness ==
    /\ lastResolve # <<>>
    /\ LET c == lastResolve[1]
       IN  /\ c.timestamp # 0
           /\ ~c.tf_listener.can
           /\ ~HeldAt(c, 0).ok
           /\ ~c.result.ret
           /\ Len(c.result.calls) = 2

\* C4: whenever the call returns false, the lookup at the latest sentinel
\* (time 0) was attempted and failed.
C4_FailureOnlyAfterFallback ==
    lastResolve # <<>> =>
        LET c == lastResolve[1]
        IN  ~c.result.ret =>
                /\ LookupsAt(c, 0) # {}
                /\ ~HeldAt(c, 0).ok

\* C5: a callback whose pose resolution fails leaves the map, the
\* integrator's call log, the published output and the process state as they
\* were, and the integrator is only ever called with a pose that a
\* successful resolution returned.
C5_FailedObservationDropped ==
    /\ [][ (lastResolve' # lastResolve /\ ~lastResolve'[1].result.ret)
              => UNCHANGED <<tsdf_map_, integrations, published, aborted>> ]_vars
    /\ [](\A k \in 1..Len(integrations) : integrations[k].resolved)

\* a callback has failed to resolve its pose
C5_Witness ==
    /\ lastResolve # <<>>
    /\ ~lastResolve[1].result.ret
    /\ lastResolve[1].result.errors # <<>>
    /\ integrations = <<>>
    /\ tsdf_map_ = << TsdfMapNew(VoxelsPerSide, voxel_size) >>

(* Properties of the export *)

PointAt(pc, k, i, V) == pc.points[(k - 1) * V + i + 1]

\* C6: every published pointcloud of a map with B allocated blocks of V
\* voxels has exactly B*V points, whatever the distances are.
C6_ExportSize ==
    \A n \in 1..Len(published) :
        /\ tsdf_map_ # <<>>
        /\ Len(published[n].points) =
              getNumberOfAllocatedBlocks(tsdf_map_[1]) * getVoxelsPerBlock(tsdf_map_[1])

\* an export of two blocks with distances on both sides of max_distance
C6_Witness ==
    /\ published # <<>>
    /\ tsdf_map_ # <<>>
    /\ getNumberOfAllocatedBlocks(tsdf_map_[1]) = 2
    /\ \E p \in 1..Len(published[1].points) :
          Abs(published[1].points[p].intensity) > max_distance
    /\ \E p \in 1..Len(published[1].points) :
          Abs(published[1].points[p].intensity) < max_distance

\* C7: the point at position k*V+i (k-th enumerated block, linear index i)
\* has the world coordinate that block reports for i and the distance of
\* that block's voxel i; nothing else is in the pointcloud.
C7_ExportOrder ==
    \A n \in 1..Len(published) :
        /\ tsdf_map_ # <<>>
        /\ LET map == tsdf_map_[1]
               V == getVoxelsPerBlock(map)
               order == getAllAllocatedBlocks(map)
           IN  /\ Len(published[n].points) = Len(order) * V
               /\ \A k \in 1..Len(order) : \A i \in 0..(V - 1) :
                     LET block == getBlockByIndex(map, order[k])
                         coord == getCoordinatesOfTsdfVoxelByLinearIndex(block, i)
                         pt == PointAt(published[n], k, i, V)
                     IN  /\ pt.x = coord[1]
                         /\ pt.y = coord[2]
                         /\ pt.z = coord[3]
                         /\ pt.intensity = getTsdfVoxelByLinearIndex(block, i).distance

\* an export of two blocks, the second one with a voxel unlike its neighbours
C7_Witness ==
    /\ published # <<>>
    /\ tsdf_map_ # <<>>
    /\ LET map == tsdf_map_[1]
           V == getVoxelsPerBlock(map)
       IN  /\ Len(map.block_order) = 2
           /\ \E i \in 1..(V - 1) :
                 PointAt(published[1], 2, i, V).intensity #
                     PointAt(published[1], 2, 0, V).intensity

\* C8: an export leaves the map as it was, and all exports of the map
\* (which nothing mutates) publish the same pointcloud.
C8_ExportReadOnlyDeterministic ==
    /\ [][ published' # published => tsdf_map_' = tsdf_map_ ]_vars
    /\ [](\A a, b \in 1..Len(published) : published[a] = published[b])

\* two exports of a non-empty map, with a pose resolution made as well
C8_Witness ==
    /\ Len(published) >= 2
    /\ published[1].points # <<>>
    /\ published[1] = published[2]
    /\ lastResolve # <<>>

\* C9: on a null map handle the export aborts the process: nothing is
\* published, and nothing runs afterwards.
C9_UnallocatedExportAborts ==
    /\ [](tsdf_map_ = <<>> => published = <<>>)
    /\ [][ (tsdf_map_ = <<>> /\ lastResolve' = lastResolve) => aborted' ]_vars
    /\ [][ ~aborted ]_vars

\* the export was called on a null handle
C9_Witness ==
    /\ aborted
    /\ tsdf_map_ = <<>>
    /\ published = <<>>

\* C10: after the constructor the map handle is allocated in every state,
\* and the process never aborts.
C10_MapAlwaysAllocated ==
    /\ tsdf_map_ # <<>>
    /\ ~aborted

\* callbacks (a failed one last) and exports have run
C10_Witness ==
    /\ tsdf_map_ # <<>>
    /\ Len(published) >= 1
    /\ lastResolve # <<>>
    /\ ~lastResolve[1].result.ret
====
